---------------------------- MODULE Spec2Model ----------------------------
(***************************************************************************)
(* Model of the portfolio_optimization scripts: the batch pipeline         *)
(*   original_data -> returns_data -> normalized_returns_data ->           *)
(*   correlation_matrix_data, the pairwise aggregated distribution of      *)
(*   returns, the local (rolling window) normalization, and the tools.    *)
(* Every function of the scripts is one action: it reads pickle files from *)
(* the disk (files), computes with pandas/numpy and writes a pickle file,  *)
(* returns a value (ret) or raises (outcome).                              *)
(*                                                                         *)
(* Numbers.  A float is modelled exactly as q * sqrt(r): a rational q = n/d *)
(* (gcd(n, d) = 1, d > 0) times the square root of a square-free r >= 1.   *)
(* Rationals have r = 1.  The standard deviation, the z-score, the Pearson *)
(* correlation and the whitening matrix all stay in this form.  NaN and    *)
(* +-inf are d = 0.  A sum of two numbers with different radicals has no   *)
(* such form: it is Unrep, and an action whose result would hold Unrep is  *)
(* outside the model's number range (see Representable).                   *)
(***************************************************************************)
EXTENDS Integers, Sequences, FiniteSets, TLC

VARIABLES
    files,      \* the disk: path -> unpickled content, for the paths that exist
    call,       \* the function call that ran last, with its arguments
    outcome,    \* how that call ended: "returned" or the exception it raised
    ret,        \* the value that call returned (None when it returns nothing)
    stdout,     \* the messages that call printed, in order
    args,       \* the run's parameters, set once by main: dates, time_step, window
    external,   \* the calls that call made to code outside the sources, in order
    folders     \* the directories that exist

vars == <<files, call, outcome, ret, stdout, args, external, folders>>

----------------------------------------------------------------------------
(* Bounds of the model *)

MaxRows == 3        \* rows of an input DataFrame
MaxWindow == 2      \* the rolling window

----------------------------------------------------------------------------
(* Exact arithmetic on n/d * sqrt(r) *)

NaN == [n |-> 0, d |-> 0, r |-> 1]
PInf == [n |-> 1, d |-> 0, r |-> 1]
NInf == [n |-> -1, d |-> 0, r |-> 1]
Unrep == [n |-> 0, d |-> 0, r |-> 0]
Zero == [n |-> 0, d |-> 1, r |-> 1]
One == [n |-> 1, d |-> 1, r |-> 1]

Abs(i) == IF i < 0 THEN -i ELSE i

RECURSIVE Gcd(_, _)
Gcd(a, b) == IF b = 0 THEN a ELSE Gcd(b, a % b)

(* n/d * sqrt(r) in lowest terms, d # 0, r square-free *)
Mk(n, d, r) ==
    IF n = 0 THEN Zero
    ELSE LET g == Gcd(Abs(n), Abs(d))
             s == IF d < 0 THEN -1 ELSE 1
         IN [n |-> s * (n \div g), d |-> s * (d \div g), r |-> r]

OfInt(i) == Mk(i, 1, 1)
Q(n, d) == Mk(n, d, 1)

IsUnrep(x) == x.r = 0
IsNaN(x) == x.d = 0 /\ x.n = 0 /\ x.r = 1
IsInf(x) == x.d = 0 /\ x.n # 0
IsFinite(x) == x.d # 0
IsZero(x) == x.d # 0 /\ x.n = 0
Sign(x) == IF x.n > 0 THEN 1 ELSE IF x.n < 0 THEN -1 ELSE 0
InfOf(s) == IF s > 0 THEN PInf ELSE NInf

NNeg(x) == IF IsFinite(x) \/ IsInf(x) THEN [x EXCEPT !.n = -x.n] ELSE x

NMul(x, y) ==
    IF IsUnrep(x) \/ IsUnrep(y) THEN Unrep
    ELSE IF IsNaN(x) \/ IsNaN(y) THEN NaN
    ELSE IF IsInf(x) \/ IsInf(y)
         THEN IF IsZero(x) \/ IsZero(y) THEN NaN ELSE InfOf(Sign(x) * Sign(y))
    ELSE LET g == Gcd(x.r, y.r)
         IN Mk(x.n * y.n * g, x.d * y.d, (x.r \div g) * (y.r \div g))

NDiv(x, y) ==
    IF IsUnrep(x) \/ IsUnrep(y) THEN Unrep
    ELSE IF IsNaN(x) \/ IsNaN(y) THEN NaN
    ELSE IF IsInf(y) THEN (IF IsInf(x) THEN NaN ELSE Zero)
    ELSE IF IsZero(y)
         THEN IF IsZero(x) THEN NaN ELSE InfOf(Sign(x))
    ELSE IF IsInf(x) THEN InfOf(Sign(x) * Sign(y))
    ELSE \* 1 / (n/d sqrt r) = d / (n r) sqrt r
         NMul(x, Mk(y.d, y.n * y.r, y.r))

NAdd(x, y) ==
    IF IsUnrep(x) \/ IsUnrep(y) THEN Unrep
    ELSE IF IsNaN(x) \/ IsNaN(y) THEN NaN
    ELSE IF IsInf(x) THEN (IF IsInf(y) /\ Sign(x) # Sign(y) THEN NaN ELSE x)
    ELSE IF IsInf(y) THEN y
    ELSE IF IsZero(x) THEN y
    ELSE IF IsZero(y) THEN x
    ELSE IF x.r = y.r THEN Mk(x.n * y.d + y.n * x.d, x.d * y.d, x.r)
    ELSE Unrep

NSub(x, y) == NAdd(x, NNeg(y))

(* m = k*k*s with s square-free, as <<k, s>>, trying the divisors from f *)
RECURSIVE SqSplit(_, _)
SqSplit(m, f) ==
    IF f * f > m THEN <<1, m>>
    ELSE IF m % (f * f) = 0
         THEN LET t == SqSplit(m \div (f * f), f) IN <<f * t[1], t[2]>>
         ELSE SqSplit(m, f + 1)

(* sqrt of a rational: sqrt(n/d) = sqrt(n d) / d *)
NSqrt(x) ==
    IF IsUnrep(x) THEN Unrep
    ELSE IF IsNaN(x) THEN NaN
    ELSE IF Sign(x) < 0 THEN NaN
    ELSE IF IsInf(x) \/ IsZero(x) THEN x
    ELSE IF x.r # 1 THEN Unrep
    ELSE LET t == SqSplit(x.n * x.d, 2) IN Mk(t[1], x.d, t[2])

(* |x| <= 1 for a finite x: n*n*r <= d*d *)
AbsLeqOne(x) == IsFinite(x) /\ x.n * x.n * x.r <= x.d * x.d

----------------------------------------------------------------------------
(* pandas: Series and DataFrame                                            *)
(* A DataFrame is [cols, idx, rows]: the column labels, the index (dates,  *)
(* strictly increasing) and rows[i][j], the value of column j at idx[i].   *)
(* A Series is [idx, vals].                                                *)

(* Python's None, as a value of its own kind *)
None == [none |-> TRUE]

Range(s) == {s[i] : i \in DOMAIN s}

RECURSIVE SeqSum(_)
SeqSum(s) == IF s = <<>> THEN Zero ELSE NAdd(Head(s), SeqSum(Tail(s)))

NRows(f) == Len(f.idx)
NCols(f) == Len(f.cols)
Column(f, j) == [i \in 1..NRows(f) |-> f.rows[i][j]]
ColumnOf(f, c) == Column(f, CHOOSE j \in 1..NCols(f) : f.cols[j] = c)
NaNRow(k) == [j \in 1..k |-> NaN]

(* skipna=True: the statistics of a column leave its NaN out *)
NotNa(s) == SelectSeq(s, LAMBDA x : ~IsNaN(x))

(* Series.mean() *)
Mean(s) ==
    LET v == NotNa(s)
    IN IF Len(v) = 0 THEN NaN ELSE NDiv(SeqSum(v), OfInt(Len(v)))

(* the sum of (x - m)(y - n) over two sequences of one length *)
SumProdDev(x, m, y, n) ==
    SeqSum([i \in 1..Len(x) |-> NMul(NSub(x[i], m), NSub(y[i], n))])

(* Series.var(), ddof = 1 *)
Var(s) ==
    LET v == NotNa(s)
        m == Mean(v)
    IN IF Len(v) < 2 THEN NaN
       ELSE NDiv(SumProdDev(v, m, v, m), OfInt(Len(v) - 1))

(* Series.std(), ddof = 1 *)
Std(s) == NSqrt(Var(s))

(* DataFrame.dropna(): the rows without a NaN *)
DropNa(f) ==
    LET keep == {i \in 1..NRows(f) : \A j \in 1..NCols(f) : ~IsNaN(f.rows[i][j])}
        pos == [i \in 1..NRows(f) |-> Cardinality({k \in keep : k <= i})]
        at(p) == CHOOSE i \in keep : pos[i] = p
    IN [cols |-> f.cols,
        idx |-> [p \in 1..Cardinality(keep) |-> f.idx[at(p)]],
        rows |-> [p \in 1..Cardinality(keep) |-> f.rows[at(p)]]]

(* DataFrame.iloc[k:]: the rows from position k+1 on *)
ILocFrom(f, k) ==
    [cols |-> f.cols,
     idx |-> SubSeq(f.idx, k + 1, NRows(f)),
     rows |-> SubSeq(f.rows, k + 1, NRows(f))]

(* the last value that is not NaN at or before position i (fill_method='pad') *)
RECURSIVE Pad(_, _)
Pad(s, i) ==
    IF i = 0 THEN NaN
    ELSE IF ~IsNaN(s[i]) THEN s[i]
    ELSE Pad(s, i - 1)

(* DataFrame.pct_change(): x_t / x_{t-1} - 1 on the padded column, NaN in row 1 *)
PctChange(f) ==
    [f EXCEPT !.rows =
        [i \in 1..NRows(f) |->
            [j \in 1..NCols(f) |->
                IF i = 1 THEN NaN
                ELSE NSub(NDiv(Pad(Column(f, j), i), Pad(Column(f, j), i - 1)),
                          One)]]]

(* the window of w rows that ends at position i *)
Window(s, i, w) == SubSeq(s, i - w + 1, i)

(* rolling(window=w).<stat>(): min_periods = w, so NaN before row w and for a *)
(* window that holds a NaN *)
Rolling(f, w, stat) ==
    LET col == [j \in 1..NCols(f) |-> Column(f, j)]
        at(i, j) == IF i < w THEN NaN
                    ELSE LET win == Window(col[j], i, w)
                         IN IF Len(NotNa(win)) < w THEN NaN
                            ELSE IF stat = "mean" THEN Mean(win) ELSE Std(win)
    IN [f EXCEPT !.rows = [i \in 1..NRows(f) |-> [j \in 1..NCols(f) |-> at(i, j)]]]

RollingMean(f, w) == Rolling(f, w, "mean")
RollingStd(f, w) == Rolling(f, w, "std")

(* a set of integers as an increasing sequence *)
RECURSIVE Sorted(_)
Sorted(S) ==
    IF S = {} THEN <<>>
    ELSE LET m == CHOOSE x \in S : \A y \in S : x <= y
         IN <<m>> \o Sorted(S \ {m})

RowAt(f, date) ==
    IF \E i \in 1..NRows(f) : f.idx[i] = date
    THEN f.rows[CHOOSE i \in 1..NRows(f) : f.idx[i] = date]
    ELSE NaNRow(NCols(f))

(* DataFrame op DataFrame: aligned on the index (the union of the two, a   *)
(* label missing on one side gives NaN); the columns are those of both     *)
(* the binary operators of the frame arithmetic *)
Apply(op, x, y) == IF op = "-" THEN NSub(x, y) ELSE NDiv(x, y)

FrameOp(f, g, op) ==
    LET idx == Sorted(Range(f.idx) \cup Range(g.idx))
    IN [cols |-> f.cols,
        idx |-> idx,
        rows |-> [i \in 1..Len(idx) |->
                    [j \in 1..NCols(f) |->
                        Apply(op, RowAt(f, idx[i])[j], RowAt(g, idx[i])[j])]]]

(* DataFrame op Series: the Series is aligned on the columns *)
FrameOpCols(f, s, op) ==
    [f EXCEPT !.rows =
        [i \in 1..NRows(f) |-> [j \in 1..NCols(f) |-> Apply(op, f.rows[i][j], s[j])]]]

ColMeans(f) == [j \in 1..NCols(f) |-> Mean(Column(f, j))]
ColStds(f) == [j \in 1..NCols(f) |-> Std(Column(f, j))]

(* the rows of columns a and b (positions) where neither value is NaN *)
Complete(f, a, b) ==
    {i \in 1..NRows(f) : ~IsNaN(f.rows[i][a]) /\ ~IsNaN(f.rows[i][b])}

OnRows(f, j, R) == LET idx == Sorted(R) IN [p \in 1..Len(idx) |-> f.rows[idx[p]][j]]

(* a label-by-label matrix over the columns of f *)
SquareOver(f, entries) == [cols |-> f.cols, idx |-> f.cols, rows |-> entries]

(* DataFrame.cov(): for each pair of columns, over the rows complete for the *)
(* pair, sum (x - mean x)(y - mean y) / (nobs - 1); NaN below two rows       *)
CovEntry(f, a, b) ==
    LET R == Complete(f, a, b)
        x == OnRows(f, a, R)
        y == OnRows(f, b, R)
    IN IF Cardinality(R) < 2 THEN NaN
       ELSE NDiv(SumProdDev(x, Mean(x), y, Mean(y)), OfInt(Cardinality(R) - 1))

Cov(f) ==
    SquareOver(f, [a \in 1..NCols(f) |-> [b \in 1..NCols(f) |-> CovEntry(f, a, b)]])

(* DataFrame.corr(), Pearson: for each pair of columns, over the rows       *)
(* complete for the pair, covxy / sqrt(ssx * ssy); NaN when the divisor is 0 *)
(* or no row is complete                                                    *)
CorrEntry(f, a, b) ==
    LET R == Complete(f, a, b)
        x == OnRows(f, a, R)
        y == OnRows(f, b, R)
        divisor == NSqrt(NMul(SumProdDev(x, Mean(x), x, Mean(x)),
                              SumProdDev(y, Mean(y), y, Mean(y))))
    IN IF Cardinality(R) < 1 THEN NaN
       ELSE IF IsZero(divisor) THEN NaN
       ELSE NDiv(SumProdDev(x, Mean(x), y, Mean(y)), divisor)

CorrNoSqrt(f) ==
    SquareOver(f, [a \in 1..NCols(f) |-> [b \in 1..NCols(f) |->
        LET R == Complete(f, a, b)
            x == OnRows(f, a, R)
            y == OnRows(f, b, R)
            divisor == NMul(SumProdDev(x, Mean(x), x, Mean(x)),
                            SumProdDev(y, Mean(y), y, Mean(y)))
        IN IF Cardinality(R) < 1 \/ IsZero(divisor) THEN NaN
           ELSE NDiv(SumProdDev(x, Mean(x), y, Mean(y)), divisor)]])

Corr(f) ==
    SquareOver(f, [a \in 1..NCols(f) |-> [b \in 1..NCols(f) |-> CorrEntry(f, a, b)]])

(* whether a value (a DataFrame, a Series or None) is within the number form *)
FrameRepresentable(f) ==
    \A i \in DOMAIN f.rows : \A j \in DOMAIN f.rows[i] : ~IsUnrep(f.rows[i][j])
SeriesRepresentable(s) == \A i \in DOMAIN s.vals : ~IsUnrep(s.vals[i])

----------------------------------------------------------------------------
(* Strings.  A path, like any f-string, is the sequence of its pieces; a    *)
(* number in a string is the sequence of its decimal digits.               *)

Digits == <<"0", "1", "2", "3", "4", "5", "6", "7", "8", "9">>
DigitOf(c) == (CHOOSE i \in 1..10 : Digits[i] = c) - 1

(* f'{val}' for an int val >= 0 *)
RECURSIVE Format(_)
Format(val) ==
    IF val < 10 THEN <<Digits[val + 1]>>
    ELSE Format(val \div 10) \o <<Digits[(val % 10) + 1]>>

(* int(window) for a string of decimal digits *)
RECURSIVE ParseInt(_)
ParseInt(str) ==
    IF Len(str) = 1 THEN DigitOf(str[1])
    ELSE 10 * ParseInt(SubSeq(str, 1, Len(str) - 1)) + DigitOf(str[Len(str)])

----------------------------------------------------------------------------
(* Paths of the pickle files *)

ReturnsDataPath(dates, time_step) ==
    <<"../data/correlation_matrix/returns_data_", dates[1], "_", dates[2],
      "_step_", time_step, ".pickle">>

OriginalDataPath(dates, time_step) ==
    <<"../data/original_data/original_data_", dates[1], "_", dates[2],
      "_step_", time_step, ".pickle">>

NormalizedReturnsDataPath(dates, time_step) ==
    <<"../data/correlation_matrix/normalized_returns_data_", dates[1], "_",
      dates[2], "_step_", time_step, ".pickle">>

(* the path under which the loaders of correlation_matrix_analysis look for *)
(* the data of function_name                                               *)
CmDataPath(function_name, dates, time_step) ==
    <<"../data/correlation_matrix/", function_name, "_", dates[1], "_",
      dates[2], "_step_", time_step, ".pickle">>

VolatilityDataPath(years, time_step, window) ==
    <<"../data/correlation_matrix/volatility_data_win_">> \o window
        \o <<"_", years[1], "_", years[2], "_step_", time_step, ".pickle">>

CmPlotPath(function_name, years, time_step) ==
    <<"../plot/correlation_matrix/", function_name, "_", years[1], "_",
      years[2], "_step_", time_step, ".png">>

LnNormalizedReturnsDataPath(dates, time_step, window) ==
    <<"../data/local_normalization/ln_normalized_returns_data_", dates[1], "_",
      dates[2], "_step_", time_step, "_win_">> \o window \o <<".pickle">>

(* local_normalization_tools.save_data(data, function_name, dates, time_step, *)
(* window): the module is not among the sources; the path is the one the   *)
(* loader of ln_correlation_matrix_data reads, for any function name        *)
LnDataPath(function_name, dates, time_step, window) ==
    <<"../data/local_normalization/", function_name, "_", dates[1], "_",
      dates[2], "_step_", time_step, "_win_">> \o window \o <<".pickle">>

----------------------------------------------------------------------------
(* The effect of a call: the disk after it, how it ended, what it returned  *)
(* and what it printed                                                      *)

Effect(disk, how, value, out) ==
    [files |-> disk, outcome |-> how, ret |-> value, stdout |-> out]

Exists(disk, path) == path \in DOMAIN disk

(* pickle.dump(data, open(path, 'wb')) *)
Dump(disk, path, data) ==
    [p \in DOMAIN disk \cup {path} |-> IF p = path THEN data ELSE disk[p]]

(* except FileNotFoundError: print('No data'); print(error); print() *)
NoData(disk, out) == Effect(disk, "returned", None, out \o <<"No data">>)

(* a pickle that holds a Series, the data of one stock *)
IsSeries(data) == "vals" \in DOMAIN data

(* except TypeError: Series.corr() without a second Series *)
TooFewStocks(disk, out) ==
    Effect(disk, "returned", None,
           out \o <<"To compute the correlation is needed at least to stocks">>)

(* local_normalization_tools.function_header_print_data *)
LnHeader(function_name) == <<"header ", function_name>>

(* local_normalization_tools.save_data *)
LnSaveData(disk, data, function_name, dates, time_step, window, out) ==
    Effect(Dump(disk, LnDataPath(function_name, dates, time_step, window), data),
           "returned", None, out \o <<"Data Saved">>)

----------------------------------------------------------------------------
(* correlation_matrix_tools: the names the module defines or imports.  A    *)
(* call of any other name on the module raises AttributeError.              *)

correlation_matrix_tools ==
    {"os", "pickle", "Any", "List", "Tuple", "plt", "np",
     "hist_save_data", "hist_save_plot", "hist_function_header_print_data",
     "hist_function_header_print_plot", "hist_start_folders",
     "hist_initial_message", "hist_weeks", "gaussian_distribution", "main"}

HasAttr(module, name) == name \in module

CmHeader(function_name) == <<"header ", function_name>>

----------------------------------------------------------------------------
(* correlation_matrix_analysis *)

(* a call of correlation_matrix_tools.<name>: the lookup of a name the      *)
(* module does not define raises AttributeError, outside any try block     *)
returns_data(disk, dates, time_step) ==
    LET function_name == "returns_data"
        out == CmHeader(function_name)
        path == OriginalDataPath(dates, time_step)
    IN IF ~HasAttr(correlation_matrix_tools, "function_header_print_data")
       THEN Effect(disk, "AttributeError", None, <<>>)
       ELSE IF ~Exists(disk, path) THEN NoData(disk, out)
       ELSE IF ~HasAttr(correlation_matrix_tools, "save_data")
       THEN Effect(disk, "AttributeError", None, out)
       ELSE Effect(Dump(disk, CmDataPath(function_name, dates, time_step),
                        DropNa(PctChange(disk[path]))),
                   "returned", None, out \o <<"Data Saved">>)

normalized_returns_data(disk, dates, time_step) ==
    LET function_name == "normalized_returns_data"
        out == CmHeader(function_name)
        path == ReturnsDataPath(dates, time_step)
    IN IF ~HasAttr(correlation_matrix_tools, "function_header_print_data")
       THEN Effect(disk, "AttributeError", None, <<>>)
       ELSE IF ~Exists(disk, path) THEN NoData(disk, out)
       ELSE IF ~HasAttr(correlation_matrix_tools, "save_data")
       THEN Effect(disk, "AttributeError", None, out)
       ELSE Effect(Dump(disk, CmDataPath(function_name, dates, time_step),
                        FrameOpCols(FrameOpCols(disk[path], ColMeans(disk[path]), "-"),
                                    ColStds(disk[path]), "/")),
                   "returned", None, out \o <<"Data Saved">>)

correlation_matrix_data(disk, dates, time_step) ==
    LET function_name == "correlation_matrix_data"
        out == CmHeader(function_name)
        path == NormalizedReturnsDataPath(dates, time_step)
    IN IF ~HasAttr(correlation_matrix_tools, "function_header_print_data")
       THEN Effect(disk, "AttributeError", None, <<>>)
       ELSE IF ~Exists(disk, path) THEN NoData(disk, out)
       ELSE IF IsSeries(disk[path]) THEN TooFewStocks(disk, out)
       ELSE IF ~HasAttr(correlation_matrix_tools, "save_data")
       THEN Effect(disk, "AttributeError", None, out)
       ELSE Effect(Dump(disk, CmDataPath(function_name, dates, time_step),
                        Corr(disk[path])),
                   "returned", None, out \o <<"Data Saved">>)

(* numpy: a 2-column array is the sequence of its rows *)
Transpose(m) == [i \in 1..2 |-> [j \in 1..2 |-> m[j][i]]]

MatMul(m, n) ==
    [i \in 1..Len(m) |->
        [j \in 1..2 |-> NAdd(NMul(m[i][1], n[1][j]), NMul(m[i][2], n[2][j]))]]

Diag(v) == <<<<v[1], Zero>>, <<Zero, v[2]>>>>

Det(m) == NSub(NMul(m[1][1], m[2][2]), NMul(m[1][2], m[2][1]))

AllFinite(m) == \A i \in 1..2 : \A j \in 1..2 : IsFinite(m[i][j])

(* np.linalg.inv of a 2x2 array with a determinant other than 0 *)
Inv(m) ==
    LET det == Det(m)
    IN <<<<NDiv(m[2][2], det), NDiv(NNeg(m[1][2]), det)>>,
         <<NDiv(NNeg(m[2][1]), det), NDiv(m[1][1], det)>>>>

Normalized(u) ==
    LET norm == NSqrt(NAdd(NMul(u[1], u[1]), NMul(u[2], u[2])))
    IN <<NDiv(u[1], norm), NDiv(u[2], norm)>>

(* the two eigenvalues of the symmetric [[a, b], [b, c]], each with a unit  *)
(* eigenvector: (a + c +- sqrt((a - c)^2 + 4 b^2)) / 2 with (b, val - a),   *)
(* and a, c with the axes when b = 0                                        *)
EigPairs(m) ==
    LET a == m[1][1]
        b == m[1][2]
        c == m[2][2]
        root == NSqrt(NAdd(NMul(NSub(a, c), NSub(a, c)),
                           NMul(OfInt(4), NMul(b, b))))
        val(s) == NDiv(NAdd(NAdd(a, c), NMul(OfInt(s), root)), OfInt(2))
        pair(s) == [val |-> val(s), vec |-> Normalized(<<b, NSub(val(s), a)>>)]
    IN IF IsZero(b)
       THEN <<[val |-> a, vec |-> <<One, Zero>>], [val |-> c, vec |-> <<Zero, One>>]>>
       ELSE <<pair(1), pair(-1)>>

(* np.linalg.eig: eig_val[k] belongs to the column k of eig_vec.  LAPACK    *)
(* fixes neither the order of the eigenvalues nor the sign of an            *)
(* eigenvector: every order and sign is an outcome.                         *)
Eig(m) ==
    LET p == EigPairs(m)
    IN {[eig_val |-> <<p[o[1]].val, p[o[2]].val>>,
         eig_vec |-> [i \in 1..2 |->
                        [k \in 1..2 |-> NMul(OfInt(sg[k]), p[o[k]].vec[i])]]] :
            o \in {<<1, 2>>, <<2, 1>>}, sg \in [1..2 -> {1, -1}]}

(* data[[cols[0], cols[1]]] *)
Select(f, cols) ==
    LET at(c) == CHOOSE j \in 1..NCols(f) : f.cols[j] = c
    IN [cols |-> cols,
        idx |-> f.idx,
        rows |-> [i \in 1..NRows(f) |-> [k \in 1..Len(cols) |-> f.rows[i][at(cols[k])]]]]

(* Series.append(other, ignore_index=True) and pd.concat(.., ignore_index=True) *)
AppendSeries(x, y) ==
    [idx |-> [i \in 1..(Len(x.vals) + Len(y.vals)) |-> i - 1],
     vals |-> x.vals \o y.vals]

SeriesOf(f, j) == [idx |-> f.idx, vals |-> Column(f, j)]

TransWithoutT(rot, scal) == MatMul(rot, scal)

(* trans = rot.dot(scal).T *)
Trans(rot, scal) == Transpose(MatMul(rot, scal))

(* two_col.dot(np.linalg.inv(trans)), pooled: the column of cols[0] and then *)
(* the column of cols[1]                                                    *)
OneCol(two_col, trans) ==
    LET trans_two_col == [two_col EXCEPT !.rows = MatMul(two_col.rows, Inv(trans))]
    IN AppendSeries(SeriesOf(trans_two_col, 1), SeriesOf(trans_two_col, 2))

(* the whitening of two_col with one outcome of eig.  An eigenvalue 0 makes  *)
(* trans singular: inv raises LinAlgError.  When the covariance is singular  *)
(* without being diagonal the floating-point eigenvalue may also come out    *)
(* just below 0, its square root NaN, and every pooled value NaN.            *)
Whitened(disk, two_col, cov_two_col, eig) ==
    LET rot == eig.eig_vec
        scal == Diag(<<NSqrt(eig.eig_val[1]), NSqrt(eig.eig_val[2])>>)
        trans == Trans(rot, scal)
        nans == [idx |-> [i \in 1..(2 * NRows(two_col)) |-> i - 1],
                 vals |-> [i \in 1..(2 * NRows(two_col)) |-> NaN]]
    IN IF IsZero(Det(trans))
       THEN {Effect(disk, "LinAlgError", None, <<>>)}
            \cup (IF IsZero(cov_two_col[1][2]) THEN {}
                  ELSE {Effect(disk, "returned", nans, <<>>)})
       ELSE {Effect(disk, "returned", OneCol(two_col, trans), <<>>)}

(* the outcomes of a call: FileNotFoundError is the only exception caught   *)
aggregated_dist_returns_pair_data(disk, dates, time_step, cols) ==
    LET path == ReturnsDataPath(dates, time_step)
    IN IF ~Exists(disk, path) THEN {NoData(disk, <<>>)}
       ELSE IF ~(Range(cols) \subseteq Range(disk[path].cols))
       THEN {Effect(disk, "KeyError", None, <<>>)}
       ELSE LET two_col == Select(disk[path], cols)
                cov_two_col == Cov(two_col).rows
            IN IF ~AllFinite(cov_two_col)
               THEN {Effect(disk, "LinAlgError", None, <<>>)}
               ELSE UNION {Whitened(disk, two_col, cov_two_col, eig) :
                              eig \in Eig(cov_two_col)}

(* itertools.combinations(stocks_name, 2): the pairs of column labels, in   *)
(* the order of the columns                                                 *)
RECURSIVE ICombFrom(_, _, _)
ICombFrom(labels, i, j) ==
    IF i >= Len(labels) THEN <<>>
    ELSE IF j > Len(labels) THEN ICombFrom(labels, i + 1, i + 2)
    ELSE <<<<labels[i], labels[j]>>>> \o ICombFrom(labels, i, j + 1)

IComb(labels) == ICombFrom(labels, 1, 2)

RECURSIVE Concat(_)
Concat(list) ==
    IF Len(list) = 1 THEN list[1].ret
    ELSE AppendSeries(Concat(SubSeq(list, 1, Len(list) - 1)), list[Len(list)].ret)

(* the outcomes of the market aggregation for one list of pair results: an  *)
(* exception of a worker is raised again by pool.starmap; pd.concat raises   *)
(* ValueError for an empty list                                             *)
MarketOf(disk, results, function_name, dates, time_step, out) ==
    LET raised == {k \in DOMAIN results : results[k].outcome # "returned"}
        first == CHOOSE k \in raised : \A l \in raised : k <= l
    IN IF raised # {} THEN Effect(disk, results[first].outcome, None, out)
       ELSE IF Len(results) = 0 THEN Effect(disk, "ValueError", None, out)
       ELSE IF ~HasAttr(correlation_matrix_tools, "save_data")
       THEN Effect(disk, "AttributeError", None, out)
       ELSE Effect(Dump(disk, CmDataPath(function_name, dates, time_step),
                        Concat(results)),
                   "returned", None, out \o <<"Data Saved">>)

aggregated_dist_returns_market_data(disk, dates, time_step) ==
    LET function_name == "aggregated_dist_returns_market_data"
        out == CmHeader(function_name)
        path == ReturnsDataPath(dates, time_step)
        stocks_perm == IComb(disk[path].cols)
        outcomes(k) ==
            aggregated_dist_returns_pair_data(disk, dates, time_step, stocks_perm[k])
        lists == {r \in [DOMAIN stocks_perm ->
                            UNION {outcomes(k) : k \in DOMAIN stocks_perm}] :
                     \A k \in DOMAIN stocks_perm : r[k] \in outcomes(k)}
    IN IF ~HasAttr(correlation_matrix_tools, "function_header_print_data")
       THEN {Effect(disk, "AttributeError", None, <<>>)}
       ELSE IF ~Exists(disk, path) THEN {NoData(disk, out)}
       ELSE {MarketOf(disk, r, function_name, dates, time_step, out) : r \in lists}

----------------------------------------------------------------------------
(* correlation_matrix_plot: every function prints the header, loads its     *)
(* data, draws and saves the figure                                         *)

PlotOf(disk, function_name, path, years, time_step) ==
    LET out == CmHeader(function_name)
    IN IF ~HasAttr(correlation_matrix_tools, "function_header_print_plot")
       THEN Effect(disk, "AttributeError", None, <<>>)
       ELSE IF ~Exists(disk, path) THEN NoData(disk, out)
       ELSE IF ~HasAttr(correlation_matrix_tools, "save_plot")
       THEN Effect(disk, "AttributeError", None, out)
       ELSE Effect(Dump(disk, CmPlotPath(function_name, years, time_step),
                        [figure |-> function_name]),
                   "returned", None, out \o <<"Plot Saved">>)

returns_plot(disk, years, time_step) ==
    PlotOf(disk, "returns_plot", ReturnsDataPath(years, time_step), years, time_step)

volatility_plot(disk, years, time_step, window) ==
    PlotOf(disk, "volatility_plot", VolatilityDataPath(years, time_step, window),
           years, time_step)

normalized_returns_plot(disk, years, time_step) ==
    PlotOf(disk, "normalized_returns_plot",
           NormalizedReturnsDataPath(years, time_step), years, time_step)

normalized_returns_distribution_plot(disk, years, time_step) ==
    PlotOf(disk, "normalized_returns_distribution_plot",
           NormalizedReturnsDataPath(years, time_step), years, time_step)

correlation_matrix_plot(disk, years, time_step) ==
    PlotOf(disk, "correlation_matrix_plot",
           CmDataPath("correlation_matrix_data", years, time_step), years, time_step)

----------------------------------------------------------------------------
(* correlation_matrix_tools *)

(* for val in range(val, stop): '0{val}' below 10, '{val}' from 10 on *)
RECURSIVE WeekNumNoPad(_, _)
WeekNumNoPad(val, stop) ==
    IF val >= stop THEN <<>>
    ELSE <<Format(val)>> \o WeekNumNoPad(val + 1, stop)

RECURSIVE WeekNum(_, _)
WeekNum(val, stop) ==
    IF val >= stop THEN <<>>
    ELSE <<IF val < 10 THEN <<"0">> \o Format(val) ELSE Format(val)>>
             \o WeekNum(val + 1, stop)

HistWeeksTo52 == [tuple |-> WeekNum(1, 53)]

(* range(1, 54), returned as a tuple *)
hist_weeks == [tuple |-> WeekNum(1, 54)]

----------------------------------------------------------------------------
(* local_normalization_analysis *)

VolatilityOfKeepNa(data, window) == RollingStd(data, ParseInt(window))

(* std_df = data.rolling(window=int(window)).std().dropna() *)
VolatilityOf(data, window) == DropNa(RollingStd(data, ParseInt(window)))

LnVolatilityDataOverInput(disk, dates, time_step, window) ==
    LET out == LnHeader("ln_volatility_data")
        path == ReturnsDataPath(dates, time_step)
    IN IF ~Exists(disk, path) THEN NoData(disk, out)
       ELSE Effect(Dump(disk, path, VolatilityOf(disk[path], window)),
                   "returned", None, out \o <<"Data Saved">>)

ln_volatility_data(disk, dates, time_step, window) ==
    LET function_name == "ln_volatility_data"
        out == LnHeader(function_name)
        path == ReturnsDataPath(dates, time_step)
    IN IF ~Exists(disk, path) THEN NoData(disk, out)
       ELSE LnSaveData(disk, VolatilityOf(disk[path], window), function_name,
                       dates, time_step, window, out)

DataWinLate(data, window) == ILocFrom(data, ParseInt(window))

(* data_win = data.iloc[int(window) - 1:] *)
DataWin(data, window) == ILocFrom(data, ParseInt(window) - 1)

(* normalized_df = (data_win - data_mean) / data_std *)
LnNormalizedOf(data, window) ==
    LET data_win == DataWin(data, window)
        data_mean == DropNa(RollingMean(data, ParseInt(window)))
        data_std == DropNa(RollingStd(data, ParseInt(window)))
    IN FrameOp(FrameOp(data_win, data_mean, "-"), data_std, "/")

ln_normalized_returns_data(disk, dates, time_step, window) ==
    LET function_name == "ln_normalized_returns_data"
        out == LnHeader(function_name)
        path == ReturnsDataPath(dates, time_step)
    IN IF ~Exists(disk, path) THEN NoData(disk, out)
       ELSE LnSaveData(disk, LnNormalizedOf(disk[path], window), function_name,
                       dates, time_step, window, out)

ln_correlation_matrix_data(disk, dates, time_step, window) ==
    LET function_name == "ln_correlation_matrix_data"
        out == LnHeader(function_name)
        path == LnNormalizedReturnsDataPath(dates, time_step, window)
    IN IF ~Exists(disk, path) THEN NoData(disk, out)
       ELSE IF IsSeries(disk[path]) THEN TooFewStocks(disk, out)
       ELSE LnSaveData(disk, Corr(disk[path]), function_name,
                       dates, time_step, window, out)

----------------------------------------------------------------------------
(* Inputs *)

Columns == <<"A", "B">>

(* the DataFrames of n rows over Columns, column j with values of V[j], and *)
(* the dates 1..n as index                                                  *)
FramesOf(n, V) ==
    {[cols |-> Columns, idx |-> [i \in 1..n |-> i], rows |-> m] :
        m \in [1..n -> {row \in [1..Len(Columns) -> UNION Range(V)] :
                            \A j \in 1..Len(Columns) : row[j] \in V[j]}]}

Missing(f) ==
    Cardinality({ij \in (1..NRows(f)) \X (1..NCols(f)) : IsNaN(f.rows[ij[1]][ij[2]])})

(* returns matrices: returns_data drops the rows with a missing value, so a *)
(* returns file holds none                                                  *)
ReturnValues == <<{Zero, One, Q(-1, 2)}, {Zero, One}>>
ReturnFrames == UNION {FramesOf(n, ReturnValues) : n \in 1..MaxRows}

(* returns matrices for the pairwise aggregation: values for which the     *)
(* eigenvalues of many covariance matrices are rational                     *)
PairValues == <<{OfInt(-1), Zero, OfInt(3)}, {Zero, One}>>
PairFrames == UNION {FramesOf(n, PairValues) : n \in 1..MaxRows}

(* price matrices: positive prices, MaxRows observations, every instrument *)
(* quoted at 1 on the first date                                            *)
PriceValues == <<{One, OfInt(2)}, {One, OfInt(2)}>>
PriceFrames == {f \in FramesOf(MaxRows, PriceValues) : f.rows[1] = <<One, One>>}

(* normalized returns matrices: a value is missing where the spread of the  *)
(* column (of the window) was 0; at most one is, here                       *)
NormalizedValues == <<{NaN, Zero, One}, {NaN, Zero, One}>>
NormalizedFrames ==
    UNION {{f \in FramesOf(n, NormalizedValues) : Missing(f) <= 1} : n \in 1..MaxRows}

DateRanges == {<<"1992-01", "2012-12">>}
TimeSteps == {"1d"}
Windows == {Format(w) : w \in 1..MaxWindow}

RunArgs == [dates : DateRanges, time_step : TimeSteps, window : Windows]

----------------------------------------------------------------------------
(* The state machine *)

(* the folders the analysis scripts read and write in: they exist when the  *)
(* analysis runs                                                            *)
PipelineFolders ==
    {<<"../data">>, <<"../plot">>, <<"../data/original_data">>,
     <<"../data/correlation_matrix">>, <<"../data/local_normalization">>,
     <<"../plot/correlation_matrix">>}

Called(function_name, cols) == [fn |-> function_name, cols |-> cols]

(* a call with its effect; a result outside the number form is not modelled *)
Representable(e) ==
    /\ \A p \in DOMAIN e.files :
          /\ "rows" \in DOMAIN e.files[p] => FrameRepresentable(e.files[p])
          /\ "vals" \in DOMAIN e.files[p] => SeriesRepresentable(e.files[p])
    /\ "vals" \in DOMAIN e.ret => SeriesRepresentable(e.ret)

Do(c, e) ==
    /\ Representable(e)
    /\ call' = c
    /\ files' = e.files
    /\ outcome' = e.outcome
    /\ ret' = e.ret
    /\ stdout' = e.stdout
    /\ external' = <<>>
    /\ UNCHANGED <<args, folders>>

NoCall ==
    /\ call = Called("", <<>>)
    /\ outcome = ""
    /\ ret = None
    /\ stdout = <<>>
    /\ external = <<>>

LnVolatilityData ==
    \E e \in {ln_volatility_data(files, args.dates, args.time_step, args.window)} :
        Do(Called("ln_volatility_data", <<>>), e)

LnNormalizedReturnsData ==
    \E e \in {ln_normalized_returns_data(files, args.dates, args.time_step, args.window)} :
        Do(Called("ln_normalized_returns_data", <<>>), e)

LnCorrelationMatrixData ==
    \E e \in {ln_correlation_matrix_data(files, args.dates, args.time_step, args.window)} :
        Do(Called("ln_correlation_matrix_data", <<>>), e)

CorrelationMatrixData ==
    \E e \in {correlation_matrix_data(files, args.dates, args.time_step)} :
        Do(Called("correlation_matrix_data", <<>>), e)

PairsOf(labels) ==
    {<<labels[i], labels[j]>> : i \in DOMAIN labels, j \in DOMAIN labels} \
        {<<labels[i], labels[i]>> : i \in DOMAIN labels}

AggregatedDistReturnsPairData ==
    \E cols \in PairsOf(Columns) :
        \E e \in aggregated_dist_returns_pair_data(files, args.dates,
                                                   args.time_step, cols) :
            Do(Called("aggregated_dist_returns_pair_data", cols), e)

AggregatedDistReturnsMarketData ==
    \E e \in aggregated_dist_returns_market_data(files, args.dates, args.time_step) :
        Do(Called("aggregated_dist_returns_market_data", <<>>), e)

ReturnsData ==
    \E e \in {returns_data(files, args.dates, args.time_step)} :
        Do(Called("returns_data", <<>>), e)

NormalizedReturnsData ==
    \E e \in {normalized_returns_data(files, args.dates, args.time_step)} :
        Do(Called("normalized_returns_data", <<>>), e)

ReturnsPlot ==
    \E e \in {returns_plot(files, args.dates, args.time_step)} :
        Do(Called("returns_plot", <<>>), e)

VolatilityPlot ==
    \E e \in {volatility_plot(files, args.dates, args.time_step, args.window)} :
        Do(Called("volatility_plot", <<>>), e)

NormalizedReturnsPlot ==
    \E e \in {normalized_returns_plot(files, args.dates, args.time_step)} :
        Do(Called("normalized_returns_plot", <<>>), e)

NormalizedReturnsDistributionPlot ==
    \E e \in {normalized_returns_distribution_plot(files, args.dates, args.time_step)} :
        Do(Called("normalized_returns_distribution_plot", <<>>), e)

CorrelationMatrixPlot ==
    \E e \in {correlation_matrix_plot(files, args.dates, args.time_step)} :
        Do(Called("correlation_matrix_plot", <<>>), e)

HistWeeks ==
    \E e \in {Effect(files, "returned", hist_weeks, <<>>)} :
        Do(Called("hist_weeks", <<>>), e)

(* local normalization: the disk holds no file or a returns file when the   *)
(* script starts                                                            *)
InitLn ==
    /\ args \in RunArgs
    /\ \/ files = <<>>
       \/ \E data \in ReturnFrames :
            files = Dump(<<>>, ReturnsDataPath(args.dates, args.time_step), data)
    /\ folders = PipelineFolders
    /\ NoCall

NextLn ==
    \/ LnVolatilityData
    \/ LnNormalizedReturnsData
    \/ LnCorrelationMatrixData

SpecLn == InitLn /\ [][NextLn]_vars

(* the two correlation matrices: the disk holds no file, a normalized returns *)
(* file or a locally normalized returns file when the script starts         *)
InitCorr ==
    /\ args \in RunArgs
    /\ \/ files = <<>>
       \/ \E data \in NormalizedFrames :
            files = Dump(<<>>, NormalizedReturnsDataPath(args.dates,
                                   args.time_step), data)
       \/ \E data \in NormalizedFrames :
            files = Dump(<<>>, LnNormalizedReturnsDataPath(args.dates,
                                   args.time_step, args.window), data)
    /\ folders = PipelineFolders
    /\ NoCall

NextCorr ==
    \/ CorrelationMatrixData
    \/ LnCorrelationMatrixData

SpecCorr == InitCorr /\ [][NextCorr]_vars

(* the pairwise aggregation: the disk holds no file or a returns file; the *)
(* window plays no part in it                                               *)
InitPair ==
    /\ args \in RunArgs
    /\ args.window = Format(1)
    /\ \/ files = <<>>
       \/ \E data \in PairFrames :
            files = Dump(<<>>, ReturnsDataPath(args.dates, args.time_step), data)
    /\ folders = PipelineFolders
    /\ NoCall

NextPair ==
    \/ AggregatedDistReturnsPairData
    \/ AggregatedDistReturnsMarketData

SpecPair == InitPair /\ [][NextPair]_vars

(* the whole pipeline: when the scripts start the disk holds the files of   *)
(* the stages up to some stage, each computed from the one before; main      *)
(* runs with one window, here the largest                                   *)
StageDisk(dates, time_step, prices, stage) ==
    LET returns == DropNa(PctChange(prices))
        normalized == FrameOpCols(FrameOpCols(returns, ColMeans(returns), "-"),
                                  ColStds(returns), "/")
        d1 == Dump(<<>>, OriginalDataPath(dates, time_step), prices)
        d2 == Dump(d1, ReturnsDataPath(dates, time_step), returns)
        d3 == Dump(d2, NormalizedReturnsDataPath(dates, time_step), normalized)
    IN IF stage = 1 THEN d1 ELSE IF stage = 2 THEN d2 ELSE d3

Init ==
    /\ args \in RunArgs
    /\ args.window = Format(MaxWindow)
    /\ \/ files = <<>>
       \/ \E prices \in PriceFrames, stage \in 1..3 :
            files = StageDisk(args.dates, args.time_step, prices, stage)
    /\ folders = PipelineFolders
    /\ NoCall

Next ==
    \/ ReturnsData
    \/ NormalizedReturnsData
    \/ CorrelationMatrixData
    \/ AggregatedDistReturnsPairData
    \/ AggregatedDistReturnsMarketData
    \/ ReturnsPlot
    \/ VolatilityPlot
    \/ NormalizedReturnsPlot
    \/ NormalizedReturnsDistributionPlot
    \/ CorrelationMatrixPlot
    \/ LnVolatilityData
    \/ LnNormalizedReturnsData
    \/ LnCorrelationMatrixData
    \/ HistWeeks

Spec == Init /\ [][Next]_vars

----------------------------------------------------------------------------
(* Claims *)

Ran(function_name) == call.fn = function_name /\ outcome = "returned"

ReturnsFile == files[ReturnsDataPath(args.dates, args.time_step)]
HasReturnsFile == Exists(files, ReturnsDataPath(args.dates, args.time_step))
LnFile(function_name) ==
    files[LnDataPath(function_name, args.dates, args.time_step, args.window)]
HasLnFile(function_name) ==
    Exists(files, LnDataPath(function_name, args.dates, args.time_step, args.window))

NoMissing(f) == \A i \in 1..NRows(f) : \A j \in 1..NCols(f) : ~IsNaN(f.rows[i][j])

(* the index of the rows at positions w..N of a DataFrame *)
IdxFrom(f, w) == SubSeq(f.idx, w, NRows(f))

(* a run of function_name on a returns matrix without missing values that  *)
(* holds at least window rows                                               *)
RanOnFullHistory(function_name) ==
    /\ Ran(function_name)
    /\ HasReturnsFile
    /\ NoMissing(ReturnsFile)
    /\ NRows(ReturnsFile) >= ParseInt(args.window)

TrailingZScore(x, t, w) ==
    LET win == [k \in 1..w |-> x[t - w + k]]
    IN IF \E k \in 1..w : IsNaN(win[k]) THEN NaN
       ELSE NDiv(NSub(x[t], Mean(win)), Std(win))

PositionOf(f, date) == CHOOSE t \in 1..NRows(f) : f.idx[t] = date

CorrInputPath(fn) ==
    IF fn = "correlation_matrix_data"
    THEN NormalizedReturnsDataPath(args.dates, args.time_step)
    ELSE LnNormalizedReturnsDataPath(args.dates, args.time_step, args.window)
CorrOutputPath(fn) ==
    IF fn = "correlation_matrix_data"
    THEN CmDataPath(fn, args.dates, args.time_step)
    ELSE LnDataPath(fn, args.dates, args.time_step, args.window)
CorrFunctions == {"correlation_matrix_data", "ln_correlation_matrix_data"}

Varies(f, j, R) ==
    \E i \in R : \E k \in R : ~IsNaN(f.rows[i][j]) /\ ~IsNaN(f.rows[k][j])
                               /\ f.rows[i][j] # f.rows[k][j]
NonConstant(f, j) == Varies(f, j, 1..NRows(f))
(* columns a and b both vary over the rows where neither is missing *)
PairVaries(f, a, b) ==
    Varies(f, a, Complete(f, a, b)) /\ Varies(f, b, Complete(f, a, b))

SquareSymmetric(m, in) ==
    /\ m.cols = in.cols
    /\ m.idx = in.cols
    /\ \A a \in 1..NCols(in) : \A b \in 1..NCols(in) : m.rows[a][b] = m.rows[b][a]

UnitDiagonalInRange(m, in) ==
    /\ \A a \in 1..NCols(in) : m.rows[a][a] = One
    /\ \A a \in 1..NCols(in) : \A b \in 1..NCols(in) : AbsLeqOne(m.rows[a][b])

----------------------------------------------------------------------------
(* The pairwise aggregation *)

PairCall == call.fn = "aggregated_dist_returns_pair_data" /\ HasReturnsFile
TwoCol == Select(ReturnsFile, call.cols)
CovTwoCol == Cov(TwoCol).rows

(* a 2x2 covariance matrix is singular: its entries are numbers and its     *)
(* determinant is 0                                                        *)
Singular(m) == AllFinite(m) /\ IsZero(Det(m))
NonDegenerate(m) == AllFinite(m) /\ ~IsZero(Det(m))

MarketFile ==
    CmDataPath("aggregated_dist_returns_market_data", args.dates, args.time_step)

(* C2: when the 2x2 covariance matrix of a pair is singular, the pair       *)
(* function does not raise (it catches the failure and skips the pair), and *)
(* the market function completes and saves the aggregate of the other pairs *)
C2_SingularPairSkipped ==
    /\ (PairCall /\ Singular(CovTwoCol)) => outcome = "returned"
    /\ (call.fn = "aggregated_dist_returns_market_data" /\ HasReturnsFile)
           => (outcome = "returned" /\ Exists(files, MarketFile))

(* a pair with a constant column: inv raises LinAlgError out of the call *)
C2_Witness ==
    /\ PairCall
    /\ NRows(ReturnsFile) = 3
    /\ \A i \in 1..3 : IsZero(ColumnOf(TwoCol, "A")[i])
    /\ NonConstant(TwoCol, 1) \/ NonConstant(TwoCol, 2)
    /\ Singular(CovTwoCol)
    /\ outcome = "LinAlgError"
    /\ ret = None

(* the two halves of the pooled sample, as the two columns they came from *)
Halves(one_col) ==
    LET n == Len(one_col.vals) \div 2
    IN [cols |-> <<1, 2>>,
        idx |-> [i \in 1..n |-> i],
        rows |-> [i \in 1..n |-> <<one_col.vals[i], one_col.vals[n + i]>>]]

Identity == <<<<One, Zero>>, <<Zero, One>>>>

(* C6: for a pair whose 2x2 covariance matrix is non-degenerate, the two    *)
(* transformed columns that aggregated_dist_returns_pair_data pools have    *)
(* the identity as covariance matrix: variance 1 each, covariance 0         *)
C6_WhitenedCovarianceIsIdentity ==
    (PairCall /\ NonDegenerate(CovTwoCol))
        => /\ outcome = "returned"
           /\ Cov(Halves(ret)).rows = Identity

(* a correlated pair with different variances went through the whitening *)
C6_Witness ==
    /\ PairCall
    /\ NonDegenerate(CovTwoCol)
    /\ ~IsZero(CovTwoCol[1][2])
    /\ CovTwoCol[1][1] # CovTwoCol[2][2]
    /\ outcome = "returned"
    /\ Cov(Halves(ret)).rows = Identity

(* C10: for a pair (a, b) over a returns matrix of N rows, the call returns *)
(* one pooled sample of exactly 2N values, indexed 0..2N-1: the N           *)
(* transformed values of a in row order, then the N transformed values of b *)
C10_PooledSample ==
    PairCall
        => /\ outcome = "returned"
           /\ Len(ret.vals) = 2 * NRows(TwoCol)
           /\ ret.idx = [i \in 1..(2 * NRows(TwoCol)) |-> i - 1]
           /\ \E eig \in Eig(CovTwoCol) :
                LET trans == Trans(eig.eig_vec,
                                   Diag(<<NSqrt(eig.eig_val[1]), NSqrt(eig.eig_val[2])>>))
                    w == Inv(trans)
                IN \A i \in 1..NRows(TwoCol) :
                    /\ ret.vals[i] = MatMul(TwoCol.rows, w)[i][1]
                    /\ ret.vals[NRows(TwoCol) + i] = MatMul(TwoCol.rows, w)[i][2]

(* two rows, the first column constant: no sample is returned *)
C10_Witness ==
    /\ PairCall
    /\ call.cols = <<"A", "B">>
    /\ ReturnsFile.rows = <<<<Zero, Zero>>, <<Zero, One>>>>
    /\ outcome = "LinAlgError"
    /\ ret = None

(* every call that returns a sample returns it pooled as C10 says *)
PooledWhenReturned ==
    (PairCall /\ NonDegenerate(CovTwoCol))
        => /\ outcome = "returned"
           /\ Len(ret.vals) = 2 * NRows(TwoCol)
           /\ ret.idx = [i \in 1..(2 * NRows(TwoCol)) |-> i - 1]
           /\ \E eig \in Eig(CovTwoCol) :
                LET w == Inv(Trans(eig.eig_vec,
                                   Diag(<<NSqrt(eig.eig_val[1]), NSqrt(eig.eig_val[2])>>)))
                IN \A i \in 1..NRows(TwoCol) :
                    /\ ret.vals[i] = MatMul(TwoCol.rows, w)[i][1]
                    /\ ret.vals[NRows(TwoCol) + i] = MatMul(TwoCol.rows, w)[i][2]



----------------------------------------------------------------------------
(* The loaders and a missing input file *)

(* the pickle file each function loads *)
InputPath(function_name) ==
    CASE function_name = "returns_data" ->
            OriginalDataPath(args.dates, args.time_step)
      [] function_name \in {"normalized_returns_data",
                            "aggregated_dist_returns_pair_data",
                            "aggregated_dist_returns_market_data",
                            "ln_volatility_data", "ln_normalized_returns_data",
                            "returns_plot"} ->
            ReturnsDataPath(args.dates, args.time_step)
      [] function_name \in {"correlation_matrix_data", "normalized_returns_plot",
                            "normalized_returns_distribution_plot"} ->
            NormalizedReturnsDataPath(args.dates, args.time_step)
      [] function_name = "ln_correlation_matrix_data" ->
            LnNormalizedReturnsDataPath(args.dates, args.time_step, args.window)
      [] function_name = "volatility_plot" ->
            VolatilityDataPath(args.dates, args.time_step, args.window)
      [] function_name = "correlation_matrix_plot" ->
            CmDataPath("correlation_matrix_data", args.dates, args.time_step)

Loaders ==
    {"returns_data", "normalized_returns_data", "correlation_matrix_data",
     "aggregated_dist_returns_pair_data", "aggregated_dist_returns_market_data",
     "ln_volatility_data", "ln_normalized_returns_data",
     "ln_correlation_matrix_data", "returns_plot", "volatility_plot",
     "normalized_returns_plot", "normalized_returns_distribution_plot",
     "correlation_matrix_plot"}

(* C1: a call of a function that loads an input pickle, made when that file *)
(* does not exist, prints a message, writes no file and returns normally    *)
C1_MissingInputSkipped ==
    [][(call'.fn \in Loaders /\ ~Exists(files, InputPath(call'.fn)))
          => /\ outcome' = "returned"
             /\ "No data" \in Range(stdout')
             /\ files' = files]_vars

(* returns_data on an empty disk ends with AttributeError, nothing printed *)
C1_Witness ==
    /\ call.fn = "returns_data"
    /\ files = <<>>
    /\ outcome = "AttributeError"
    /\ stdout = <<>>

----------------------------------------------------------------------------
(* The week labels *)

(* the labels are the two-digit numbers 1, 2, .. in order: no gap, no repeat *)
ConsecutiveLabels(labels) ==
    \A k \in 1..Len(labels) : Len(labels[k]) = 2 /\ ParseInt(labels[k]) = k

----------------------------------------------------------------------------
(* Returns and global normalization *)

OriginalFile == files[OriginalDataPath(args.dates, args.time_step)]
HasOriginalFile == Exists(files, OriginalDataPath(args.dates, args.time_step))
NormalizedFile == files[NormalizedReturnsDataPath(args.dates, args.time_step)]
HasNormalizedFile ==
    Exists(files, NormalizedReturnsDataPath(args.dates, args.time_step))

(* C7: returns_data maps a price matrix of N rows to a returns matrix with  *)
(* the same columns and N-1 rows, the row of observation t >= 2 holding     *)
(* (p_t - p_(t-1)) / p_(t-1) for each instrument                            *)
C7_ReturnsArePctChange ==
    (call.fn = "returns_data" /\ HasOriginalFile)
        => /\ outcome = "returned"
           /\ HasReturnsFile
           /\ ReturnsFile.cols = OriginalFile.cols
           /\ NRows(ReturnsFile) = NRows(OriginalFile) - 1
           /\ \A t \in 2..NRows(OriginalFile) :
                /\ ReturnsFile.idx[t - 1] = OriginalFile.idx[t]
                /\ \A j \in 1..NCols(OriginalFile) :
                     ReturnsFile.rows[t - 1][j] =
                        NDiv(NSub(OriginalFile.rows[t][j], OriginalFile.rows[t - 1][j]),
                             OriginalFile.rows[t - 1][j])

(* returns_data on an existing price matrix: AttributeError, no returns file *)
C7_Witness ==
    /\ call.fn = "returns_data"
    /\ HasOriginalFile
    /\ NRows(OriginalFile) >= 2
    /\ outcome = "AttributeError"
    /\ ~HasReturnsFile

(* C8: normalized_returns_data saves (x - m) / s for every value, m and s   *)
(* the mean and standard deviation of the value's column over the whole     *)
(* series: same rows and columns as the input, and mean 0 and standard      *)
(* deviation 1 in every column with a spread other than 0                   *)
C8_GlobalZScore ==
    (call.fn = "normalized_returns_data" /\ HasReturnsFile)
        => /\ outcome = "returned"
           /\ HasNormalizedFile
           /\ NormalizedFile.cols = ReturnsFile.cols
           /\ NormalizedFile.idx = ReturnsFile.idx
           /\ \A j \in 1..NCols(ReturnsFile) :
                /\ \A i \in 1..NRows(ReturnsFile) :
                     NormalizedFile.rows[i][j] =
                        NDiv(NSub(ReturnsFile.rows[i][j], Mean(Column(ReturnsFile, j))),
                             Std(Column(ReturnsFile, j)))
                /\ NonConstant(ReturnsFile, j)
                     => /\ IsZero(Mean(Column(NormalizedFile, j)))
                        /\ Std(Column(NormalizedFile, j)) = One

(* normalized_returns_data on an existing returns matrix with a column that *)
(* varies: AttributeError, no normalized file                               *)
C8_Witness ==
    /\ call.fn = "normalized_returns_data"
    /\ HasReturnsFile
    /\ \E j \in 1..NCols(ReturnsFile) : NonConstant(ReturnsFile, j)
    /\ outcome = "AttributeError"
    /\ ~HasNormalizedFile

----------------------------------------------------------------------------
(* The market aggregation *)

MarketCall == call.fn = "aggregated_dist_returns_market_data" /\ HasReturnsFile

(* the unordered pairs of distinct labels, <<labels[i], labels[j]>> with    *)
(* i < j, by i and then by j: n (n - 1) / 2 pairs for n labels              *)
UnorderedPairs(labels) ==
    LET n == Len(labels)
        codes == Sorted({c \in {i * (n + 1) + j : i \in 1..n, j \in 1..n} :
                            c \div (n + 1) < c % (n + 1)})
    IN [k \in 1..Len(codes) |->
            <<labels[codes[k] \div (n + 1)], labels[codes[k] % (n + 1)]>>]

(* series is the concatenation of one result of the pair computation for    *)
(* each pair of the sequence, in the order of the sequence                  *)
RECURSIVE IsPooledFrom(_, _)
IsPooledFrom(series, pairs) ==
    IF pairs = <<>> THEN series.vals = <<>>
    ELSE \E e \in aggregated_dist_returns_pair_data(files, args.dates,
                                                    args.time_step, Head(pairs)) :
            /\ e.outcome = "returned"
            /\ Len(e.ret.vals) <= Len(series.vals)
            /\ SubSeq(series.vals, 1, Len(e.ret.vals)) = e.ret.vals
            /\ IsPooledFrom([vals |-> SubSeq(series.vals, Len(e.ret.vals) + 1,
                                             Len(series.vals))],
                            Tail(pairs))

(* C11: aggregated_dist_returns_market_data runs the pair computation once  *)
(* for every unordered pair of distinct instruments, n (n - 1) / 2 tasks,   *)
(* and saves the concatenation of the results in the order of the pairs     *)
C11_MarketPoolsEveryPairOnce ==
    MarketCall
        => /\ outcome = "returned"
           /\ Exists(files, MarketFile)
           /\ 2 * Len(UnorderedPairs(ReturnsFile.cols))
                = NCols(ReturnsFile) * (NCols(ReturnsFile) - 1)
           /\ files[MarketFile].idx = [i \in 1..Len(files[MarketFile].vals) |-> i - 1]
           /\ IsPooledFrom(files[MarketFile], UnorderedPairs(ReturnsFile.cols))

(* the market aggregation over a pair that can be whitened: AttributeError, *)
(* nothing printed, no file saved                                           *)
C11_Witness ==
    /\ MarketCall
    /\ NRows(ReturnsFile) = 3
    /\ NonDegenerate(Cov(ReturnsFile).rows)
    /\ outcome = "AttributeError"
    /\ stdout = <<>>
    /\ ~Exists(files, MarketFile)

----------------------------------------------------------------------------
(* download_data_tools and download_data_main *)

(* the folders that always exist: the parents of the working directory *)
Roots == {<<"..">>, <<"../..">>}

(* os.mkdir(path): FileExistsError when path exists, FileNotFoundError when *)
(* its parent does not                                                      *)
Mkdir(dirs, path, parent) ==
    IF path \in dirs THEN [dirs |-> dirs, error |-> "FileExistsError"]
    ELSE IF parent \notin dirs \cup Roots
    THEN [dirs |-> dirs, error |-> "FileNotFoundError"]
    ELSE [dirs |-> dirs \cup {path}, error |-> ""]

(* a try block of mkdir calls, one after the other, that prints when all    *)
(* are done and catches FileExistsError: the first error ends the block     *)
RECURSIVE MkdirBlock(_, _, _)
MkdirBlock(dirs, paths, parents) ==
    IF paths = <<>>
    THEN [dirs |-> dirs, error |-> "", out |-> <<"Folder to save data created">>]
    ELSE LET made == Mkdir(dirs, Head(paths), Head(parents))
         IN IF made.error = "" THEN MkdirBlock(made.dirs, Tail(paths), Tail(parents))
            ELSE IF made.error = "FileExistsError"
            THEN [dirs |-> dirs, error |-> "",
                  out |-> <<"Folder exists. The folder was not created">>]
            ELSE [dirs |-> dirs, error |-> made.error, out |-> <<>>]

(* the outcome of a function that makes folders *)
FolderEffect(dirs, how, out) == [folders |-> dirs, outcome |-> how, stdout |-> out]

start_folders(dirs) ==
    LET first == MkdirBlock(dirs, <<(<<"../data">>), (<<"../plot">>)>>,
                            <<(<<"..">>), (<<"..">>)>>)
        second == MkdirBlock(first.dirs, <<(<<"../data/original_data">>)>>,
                             <<(<<"../data">>)>>)
    IN IF first.error # "" THEN FolderEffect(first.dirs, first.error, first.out)
       ELSE IF second.error # ""
       THEN FolderEffect(second.dirs, second.error, first.out \o second.out)
       ELSE FolderEffect(second.dirs, "returned", first.out \o second.out)

(* the file download_data_tools.save_data writes *)
DownloadDataPath(year, time_step) ==
    <<"../data/original_data/original_data_">> \o Format(year)
        \o <<"_step_", time_step, ".pickle">>

(* pickle.dump(data, open(path, 'wb')): open raises FileNotFoundError when  *)
(* the folder of the file does not exist                                    *)
save_data(disk, dirs, data, year, time_step) ==
    IF <<"../data/original_data">> \notin dirs
    THEN Effect(disk, "FileNotFoundError", None, <<>>)
    ELSE Effect(Dump(disk, DownloadDataPath(year, time_step), data),
                "returned", None, <<"Data Saved">>)

(* a call to code outside the sources, with what it returned *)
External(function_name, arguments, result) ==
    [fn |-> function_name, args |-> arguments, result |-> result]

SymbolsOfAnySector(data, sector) == [i \in 1..Len(data) |-> data[i].Symbol]

(* list(data[data['GICS Sector'] == sector]['Symbol']) *)
SymbolsOfSector(data, sector) ==
    LET rows == SelectSeq(data, LAMBDA row : row.GICS_Sector = sector)
    IN [i \in 1..Len(rows) |-> rows[i].Symbol]

(* for sector in sectors: stocks.extend(..) *)
RECURSIVE ExtendBySector(_, _, _)
ExtendBySector(stocks, data, sectors) ==
    IF sectors = <<>> THEN stocks
    ELSE ExtendBySector(stocks \o SymbolsOfSector(data, Head(sectors)), data,
                        Tail(sectors))

(* get_stocks, data being the first table of the page that read_html parses *)
get_stocks(disk, data, sectors) ==
    IF Len(sectors) = 0 THEN Effect(disk, "IndexError", None, <<>>)
    ELSE IF sectors[1] = "all"
    THEN Effect(disk, "returned",
                [list |-> [i \in 1..Len(data) |-> data[i].Symbol]], <<>>)
    ELSE Effect(disk, "returned",
                [list |-> ExtendBySector(<<>>, data, sectors)], <<>>)

(* download_data_tools.function_header_print_data *)
DownloadHeader(function_name) == <<"header ", function_name>>

(* the ticker of the request to yfinance *)
DownloadTicker(ticker) == "AIG"

(* yf.download(tickers='AIG', start=dt(year, 1, 1), interval=time_step) *)
DownloadRequest(ticker, year, time_step) ==
    [tickers |-> DownloadTicker(ticker), start |-> <<year, 1, 1>>,
     interval |-> time_step]

(* portfolio_download_data: raw_data is what yfinance answers, a Series of  *)
(* prices, or the download fails with an AssertionError; the function       *)
(* prints and returns                                                       *)
portfolio_download_data(disk, ticker, year, time_step, raw_data) ==
    LET out == DownloadHeader("portfolio_download_data")
    IN IF raw_data = None
       THEN Effect(disk, "returned", None, out \o <<"No data">>)
       ELSE Effect(disk, "returned", None,
                   out \o Format(Len(raw_data.vals) - Len(NotNa(raw_data.vals))))

(* Inputs of the download stage *)
MaxSectors == 2

Tickers == {"AIG", "AAPL"}
Years == {1980, 1992}
Symbols == {"AIG", "AAPL", "DUK"}
Sectors == {"Financials", "Utilities"}

(* the table of the page: one row per company, no symbol twice *)
Tables ==
    {t \in UNION {[1..n -> [Symbol : Symbols, GICS_Sector : Sectors]] : n \in 0..MaxRows} :
        \A i, j \in DOMAIN t : t[i].Symbol = t[j].Symbol => i = j}

SectorLists == UNION {[1..n -> Sectors \cup {"all"}] : n \in 0..MaxSectors}

(* what yfinance answers: the prices of one ticker, or None for a failed download *)
DownloadAnswers ==
    {None} \cup {[idx |-> <<0, 1>>, vals |-> v] : v \in {<<One, OfInt(2)>>, <<One, NaN>>}}

DownloadFrames == {f \in PriceFrames : f.rows[2] = <<One, One>>}

DownloadFolders ==
    {d \in SUBSET {<<"../data">>, <<"../plot">>, <<"../data/original_data">>} :
        <<"../data/original_data">> \in d => <<"../data">> \in d}

StartFolders ==
    \E e \in {start_folders(folders)} :
        /\ call' = Called("start_folders", <<>>)
        /\ folders' = e.folders
        /\ outcome' = e.outcome
        /\ stdout' = e.stdout
        /\ ret' = None
        /\ external' = <<>>
        /\ UNCHANGED <<files, args>>

GetStocks ==
    \E data \in Tables, sectors \in SectorLists :
        \E e \in {get_stocks(files, data, sectors)} :
            /\ call' = Called("get_stocks", <<sectors>>)
            /\ files' = e.files
            /\ outcome' = e.outcome
            /\ ret' = e.ret
            /\ stdout' = e.stdout
            /\ external' = <<External("pd.read_html", <<"wikipedia">>, data)>>
            /\ UNCHANGED <<args, folders>>

PortfolioDownloadData ==
    \E ticker \in Tickers, year \in Years, time_step \in TimeSteps,
       raw_data \in DownloadAnswers :
        \E e \in {portfolio_download_data(files, ticker, year, time_step, raw_data)} :
            /\ call' = Called("portfolio_download_data", <<ticker, year, time_step>>)
            /\ files' = e.files
            /\ outcome' = e.outcome
            /\ ret' = e.ret
            /\ stdout' = e.stdout
            /\ external' = <<External("yf.download",
                                      DownloadRequest(ticker, year, time_step), raw_data)>>
            /\ UNCHANGED <<args, folders>>

SaveData ==
    \E data \in DownloadFrames, year \in Years, time_step \in TimeSteps :
        \E e \in {save_data(files, folders, data, year, time_step)} :
            Do(Called("save_data", <<year, time_step>>), e)

InitDownload ==
    /\ args \in RunArgs
    /\ args.window = Format(MaxWindow)
    /\ files = <<>>
    /\ folders \in DownloadFolders
    /\ NoCall

NextDownload ==
    \/ StartFolders
    \/ PortfolioDownloadData
    \/ SaveData
    \/ ReturnsData
    \/ NormalizedReturnsData
    \/ CorrelationMatrixData

SpecDownload == InitDownload /\ [][NextDownload]_vars


(* download_data_main.main: the stocks of the page, then the download *)
InitStocks ==
    /\ args \in RunArgs
    /\ args.window = Format(MaxWindow)
    /\ files = <<>>
    /\ folders = {<<"../data">>, <<"../plot">>, <<"../data/original_data">>}
    /\ NoCall

NextStocks ==
    \/ GetStocks
    \/ PortfolioDownloadData

SpecStocks == InitStocks /\ [][NextStocks]_vars

----------------------------------------------------------------------------
(* Claims on the download stage *)

Stages ==
    <<"portfolio_download_data", "returns_data", "normalized_returns_data",
      "correlation_matrix_data">>

DownloadCall == call.fn = "portfolio_download_data"

(* the data yfinance answered to the call *)
Downloaded == DownloadCall /\ outcome = "returned" /\ external[1].result # None

OriginalFolders == {<<"../data">>, <<"../plot">>, <<"../data/original_data">>}

(* C12: the file a stage writes is the file the next stage loads: a stage   *)
(* called right after its predecessor returned with its data always         *)
(* returns, and never prints 'No data'                                      *)
C12_StagesFindTheirInput ==
    [][\A i \in 1..3 :
          (/\ Ran(Stages[i])
           /\ "No data" \notin Range(stdout)
           /\ call'.fn = Stages[i + 1])
             => /\ outcome' = "returned"
                /\ "No data" \notin Range(stdout')]_vars

C12_Witness ==
    /\ call.fn = "returns_data"
    /\ outcome = "AttributeError"
    /\ \E year \in Years : Exists(files, DownloadDataPath(year, args.time_step))
    /\ ~Exists(files, OriginalDataPath(args.dates, args.time_step))

(* C13: portfolio_download_data asks yfinance for the ticker it was passed, *)
(* from the first of January of the year it was passed, at the time step    *)
(* it was passed                                                            *)
C13_DownloadsPassedTicker ==
    DownloadCall
        => /\ Len(external) = 1
           /\ external[1].fn = "yf.download"
           /\ external[1].args = [tickers |-> call.cols[1],
                                  start |-> <<call.cols[2], 1, 1>>,
                                  interval |-> call.cols[3]]

C13_Witness ==
    /\ DownloadCall
    /\ call.cols[1] = "AAPL"
    /\ external[1].args.tickers = "AIG"
    /\ external[1].args.start = <<call.cols[2], 1, 1>>
    /\ external[1].args.interval = call.cols[3]

(* C14: once portfolio_download_data has returned with downloaded data, the *)
(* original data pickle of its year and time step is on disk                *)
C14_DownloadLeavesPickle ==
    Downloaded => Exists(files, DownloadDataPath(call.cols[2], call.cols[3]))

C14_Witness ==
    /\ Downloaded
    /\ OriginalFolders \subseteq folders
    /\ "No data" \notin Range(stdout)
    /\ ~Exists(files, DownloadDataPath(call.cols[2], call.cols[3]))

(* C15: start_folders never raises, and when it has returned ../data,       *)
(* ../plot and ../data/original_data all exist                              *)
C15_AllFoldersAfterStart ==
    call.fn = "start_folders"
        => /\ outcome = "returned"
           /\ OriginalFolders \subseteq folders

C15_Witness ==
    /\ Ran("start_folders")
    /\ <<"../data">> \in folders
    /\ <<"../data/original_data">> \in folders
    /\ <<"../plot">> \notin folders

----------------------------------------------------------------------------
(* correlation_matrix_tools.hist_start_folders and                          *)
(* correlation_matrix_main.hist_data_plot_generator                         *)

HistDataFolder(year) == <<"../../hist_data/matrices_physical_", year>>
HistPlotFolder(year) == <<"../../hist_plot/matrices_physical_", year>>

(* for year in years: try: mkdir, mkdir, print; except FileExistsError.     *)
(* Any other error of mkdir ends the function                               *)
RECURSIVE HistStartFoldersFrom(_, _, _)
HistStartFoldersFrom(dirs, years, out) ==
    IF years = <<>> THEN FolderEffect(dirs, "returned", out)
    ELSE LET block == MkdirBlock(dirs,
                                 <<HistDataFolder(Head(years)), HistPlotFolder(Head(years))>>,
                                 <<(<<"../../hist_data">>), (<<"../../hist_plot">>)>>)
         IN IF block.error # "" THEN FolderEffect(block.dirs, block.error, out)
            ELSE HistStartFoldersFrom(block.dirs, Tail(years), out \o block.out)

hist_start_folders(dirs, years) == HistStartFoldersFrom(dirs, years, <<>>)

(* hist_data_plot_matrices_physical.hist_fx_correlations_physical_plot(year, interval) *)
PlotCall(year, interval) ==
    External("hist_fx_correlations_physical_plot", <<year, interval>>, None)

(* for interval in intervals: the plot of the year and the interval *)
RECURSIVE IntervalsLoop(_, _)
IntervalsLoop(year, intervals) ==
    IF intervals = <<>> THEN <<>>
    ELSE <<PlotCall(year, Head(intervals))>> \o IntervalsLoop(year, Tail(intervals))

(* hist_data_plot_generator: for year in years, the loop on the intervals;  *)
(* the calls it makes, in order                                             *)
RECURSIVE hist_data_plot_generator(_, _, _)
hist_data_plot_generator(fx_pairs, years, intervals) ==
    IF years = <<>> THEN <<>>
    ELSE IntervalsLoop(Head(years), intervals)
             \o hist_data_plot_generator(fx_pairs, Tail(years), intervals)

(* Inputs of the hist functions *)
MaxYears == 2

HistYears == {"2018", "2019"}
YearLists == UNION {[1..n -> HistYears] : n \in 0..MaxYears}
FxPairs == <<"eur_usd", "gbp_usd", "usd_jpy", "aud_usd", "usd_chf", "usd_cad", "nzd_usd">>
MainIntervals == <<"week", "month", "quarter", "year">>
IntervalLists ==
    {MainIntervals} \cup UNION {[1..n -> {"week", "month"}] : n \in 0..MaxYears}

HistFolders ==
    {d \in SUBSET ({<<"../../hist_data">>, <<"../../hist_plot">>}
                    \cup {HistDataFolder(y) : y \in HistYears}
                    \cup {HistPlotFolder(y) : y \in HistYears}) :
        \A y \in HistYears :
            /\ HistDataFolder(y) \in d => <<"../../hist_data">> \in d
            /\ HistPlotFolder(y) \in d => <<"../../hist_plot">> \in d}

HistStartFolders ==
    \E years \in YearLists :
        \E e \in {hist_start_folders(folders, years)} :
            /\ call' = Called("hist_start_folders", <<years>>)
            /\ folders' = e.folders
            /\ outcome' = e.outcome
            /\ stdout' = e.stdout
            /\ ret' = None
            /\ external' = <<>>
            /\ UNCHANGED <<files, args>>

HistDataPlotGenerator ==
    \E years \in YearLists, intervals \in IntervalLists :
        /\ call' = Called("hist_data_plot_generator", <<FxPairs, years, intervals>>)
        /\ external' = hist_data_plot_generator(FxPairs, years, intervals)
        /\ outcome' = "returned"
        /\ stdout' = <<>>
        /\ ret' = None
        /\ UNCHANGED <<files, args, folders>>

InitHist ==
    /\ args \in RunArgs
    /\ args.window = Format(MaxWindow)
    /\ files = <<>>
    /\ folders \in HistFolders
    /\ NoCall

NextHist ==
    \/ HistStartFolders
    \/ HistDataPlotGenerator

SpecHist == InitHist /\ [][NextHist]_vars

(* C16: when hist_start_folders has returned, the data folder and the plot  *)
(* folder of every year of the list exist                                   *)
C16_BothFoldersOfEveryYear ==
    Ran("hist_start_folders")
        => \A i \in DOMAIN call.cols[1] :
               /\ HistDataFolder(call.cols[1][i]) \in folders
               /\ HistPlotFolder(call.cols[1][i]) \in folders

C16_Witness ==
    /\ Ran("hist_start_folders")
    /\ call.cols[1] = <<"2018", "2019">>
    /\ stdout = <<"Folder exists. The folder was not created",
                  "Folder to save data created">>
    /\ HistDataFolder("2018") \in folders
    /\ HistPlotFolder("2018") \notin folders
    /\ HistDataFolder("2019") \in folders
    /\ HistPlotFolder("2019") \in folders

GeneratorCall == call.fn = "hist_data_plot_generator"

(* the positions of the calls of a function with some arguments *)
CallsOf(function_name, arguments) ==
    {k \in DOMAIN external :
        external[k].fn = function_name /\ external[k].args = arguments}

(* the (year, interval) of position k of the nested loops *)
YearIntervalAt(years, intervals, k) ==
    <<years[((k - 1) \div Len(intervals)) + 1], intervals[((k - 1) % Len(intervals)) + 1]>>

(* C17: hist_data_plot_generator computes the returns of the year and the   *)
(* correlations of (year, interval) before it plots them, and plots each    *)
(* (year, interval) once, the years in list order and the intervals in      *)
(* list order                                                               *)
C17_DataBeforePlot ==
    GeneratorCall
        => LET years == call.cols[2]
               intervals == call.cols[3]
               plots == {k \in DOMAIN external :
                            external[k].fn = "hist_fx_correlations_physical_plot"}
           IN /\ Cardinality(plots) = Len(years) * Len(intervals)
              /\ \A k \in plots :
                    /\ external[k].args
                         = YearIntervalAt(years, intervals,
                                          Cardinality({p \in plots : p <= k}))
                    /\ \E j \in CallsOf("hist_fx_returns_year_physical_data",
                                        <<call.cols[1], external[k].args[1]>>) : j < k
                    /\ \E j \in CallsOf("hist_fx_correlations_physical_data",
                                        external[k].args) : j < k

C17_Witness ==
    /\ GeneratorCall
    /\ call.cols[2] = <<"2019">>
    /\ call.cols[3] = MainIntervals
    /\ Len(external) = 4
    /\ \A k \in 1..4 : external[k] = PlotCall("2019", MainIntervals[k])

----------------------------------------------------------------------------
(* the order of two labels of two characters, as strings *)
LabelLess(a, b) ==
    \/ DigitOf(a[1]) < DigitOf(b[1])
    \/ DigitOf(a[1]) = DigitOf(b[1]) /\ DigitOf(a[2]) < DigitOf(b[2])

(* C18: hist_weeks returns exactly 53 strings of two characters each,       *)
(* strictly ascending, none twice and none outside "01" to "53"             *)
C18_WeekLabels ==
    Ran("hist_weeks")
        => LET weeks == ret.tuple
           IN /\ Len(weeks) = 53
              /\ \A k \in DOMAIN weeks :
                    /\ Len(weeks[k]) = 2
                    /\ weeks[k][1] \in Range(Digits) /\ weeks[k][2] \in Range(Digits)
                    /\ ParseInt(weeks[k]) \in 1..53
              /\ \A k \in 1..(Len(weeks) - 1) : LabelLess(weeks[k], weeks[k + 1])
              /\ \A j, k \in DOMAIN weeks : weeks[j] = weeks[k] => j = k

C18_Witness ==
    /\ Ran("hist_weeks")
    /\ Len(ret.tuple) = 53
    /\ ret.tuple[9] = <<"0", "9">>
    /\ ret.tuple[52] = <<"5", "2">>
    /\ ret.tuple[53] = <<"5", "3">>

----------------------------------------------------------------------------
StocksCall == call.fn = "get_stocks"

(* the rows of the table that are of a sector *)
RowsOfSector(data, sector) == {i \in DOMAIN data : data[i].GICS_Sector = sector}

(* how many stocks the sectors listed before position k give *)
RECURSIVE StocksBefore(_, _, _)
StocksBefore(data, sectors, k) ==
    IF k = 1 THEN 0
    ELSE StocksBefore(data, sectors, k - 1)
             + Cardinality(RowsOfSector(data, sectors[k - 1]))

(* C19: get_stocks returns every symbol of the table when sectors[0] is     *)
(* 'all'; otherwise, for each listed sector in list order, exactly the      *)
(* symbols of that sector in table order                                    *)
C19_StocksOfSectors ==
    (StocksCall /\ Len(call.cols[1]) > 0)
        => /\ outcome = "returned"
           /\ LET data == external[1].result
                  sectors == call.cols[1]
                  stocks == ret.list
              IN IF sectors[1] = "all"
                 THEN /\ Len(stocks) = Len(data)
                      /\ \A i \in DOMAIN data : stocks[i] = data[i].Symbol
                 ELSE /\ Len(stocks) = StocksBefore(data, sectors, Len(sectors) + 1)
                      /\ \A k \in DOMAIN sectors :
                            \A i \in RowsOfSector(data, sectors[k]) :
                                stocks[StocksBefore(data, sectors, k)
                                       + Cardinality({r \in RowsOfSector(data, sectors[k]) :
                                                         r <= i})]
                                    = data[i].Symbol

C19_Witness ==
    /\ StocksCall
    /\ outcome = "returned"
    /\ call.cols[1] = <<"Utilities", "Financials">>
    /\ LET data == external[1].result
       IN /\ Len(data) = 3
          /\ data[1].GICS_Sector = "Financials"
          /\ data[2].GICS_Sector = "Utilities"
          /\ data[3].GICS_Sector = "Financials"
          /\ ret.list = <<data[2].Symbol, data[1].Symbol, data[3].Symbol>>

----------------------------------------------------------------------------
(* Normalized returns of fewer than two stocks: a DataFrame of one column,  *)
(* or a Series                                                              *)
FewValues == {NaN, Zero, One, OfInt(2)}

OneColumnFrames ==
    UNION {{[cols |-> <<"A">>, idx |-> [i \in 1..n |-> i], rows |-> m] :
               m \in [1..n -> {<<v>> : v \in FewValues}]} : n \in 1..MaxRows}

OneStockSeries ==
    UNION {{[idx |-> [i \in 1..n |-> i], vals |-> m] :
               m \in [1..n -> FewValues]} : n \in 1..MaxRows}

InitFew ==
    /\ args \in RunArgs
    /\ args.window = Format(MaxWindow)
    /\ \E data \in OneColumnFrames \cup OneStockSeries :
          \/ files = Dump(<<>>, NormalizedReturnsDataPath(args.dates,
                                    args.time_step), data)
          \/ files = Dump(<<>>, LnNormalizedReturnsDataPath(args.dates,
                                    args.time_step, args.window), data)
    /\ folders = PipelineFolders
    /\ NoCall

NextFew ==
    \/ CorrelationMatrixData
    \/ LnCorrelationMatrixData

SpecFew == InitFew /\ [][NextFew]_vars

(* the number of stocks of a pickle of returns *)
Instruments(data) == IF IsSeries(data) THEN 1 ELSE NCols(data)

(* C20: called on the normalized returns of fewer than two stocks,          *)
(* correlation_matrix_data and ln_correlation_matrix_data print that at     *)
(* least two stocks are needed and save no matrix; a matrix file exists     *)
(* only for two stocks or more                                              *)
C20_TwoStocksNeeded ==
    \A fn \in CorrFunctions :
        (call.fn = fn /\ Exists(files, CorrInputPath(fn))
            /\ Instruments(files[CorrInputPath(fn)]) < 2)
            => /\ outcome = "returned"
               /\ "To compute the correlation is needed at least to stocks"
                      \in Range(stdout)
               /\ ~Exists(files, CorrOutputPath(fn))

C20_Witness ==
    /\ Ran("ln_correlation_matrix_data")
    /\ Exists(files, CorrInputPath("ln_correlation_matrix_data"))
    /\ LET in == files[CorrInputPath("ln_correlation_matrix_data")]
       IN /\ ~IsSeries(in)
          /\ NCols(in) = 1
          /\ NRows(in) = MaxRows
    /\ Exists(files, CorrOutputPath("ln_correlation_matrix_data"))
    /\ files[CorrOutputPath("ln_correlation_matrix_data")].rows = <<(<<One>>)>>
    /\ "To compute the correlation is needed at least to stocks" \notin Range(stdout)

----------------------------------------------------------------------------
(* the names the analysis and plot functions use of correlation_matrix_tools *)
HelpersCalled ==
    {"function_header_print_data", "function_header_print_plot", "save_data",
     "save_plot", "gaussian_distribution"}

(* the functions that print their header through correlation_matrix_tools *)
HeaderCallers ==
    {"returns_data", "normalized_returns_data", "correlation_matrix_data",
     "returns_plot", "volatility_plot", "normalized_returns_plot",
     "normalized_returns_distribution_plot", "correlation_matrix_plot"}

(* C21: correlation_matrix_tools defines every helper the analysis and plot *)
(* functions call on it, so a call of one of them prints its header and     *)
(* goes on to its load step: it does not fail before its try block          *)
C21_HelpersDefined ==
    call.fn \in HeaderCallers
        => /\ \A helper \in HelpersCalled : HasAttr(correlation_matrix_tools, helper)
           /\ outcome # "AttributeError"
           /\ Len(stdout) >= 2
           /\ SubSeq(stdout, 1, 2) = CmHeader(call.fn)

C21_Witness ==
    /\ call.fn = "returns_plot"
    /\ HasReturnsFile
    /\ outcome = "AttributeError"
    /\ stdout = <<>>
    /\ HelpersCalled \cap correlation_matrix_tools = {"gaussian_distribution"}

----------------------------------------------------------------------------
(* local_normalization_analysis.ln_aggregated_dist_returns_pair_data (the   *)
(* definition of line 228, which replaces the one of line 162)              *)

LnTransWithoutT(R, S) == MatMul(R, S)

(* T = R.dot(S).T *)
LnTrans(R, S) == Transpose(MatMul(R, S))

(* one pass of the inner loop with one outcome of eig: xxx, the pooled      *)
(* columns of two_col.dot(np.linalg.inv(T)), or the error of inv            *)
LnWhitened(two_col, cov_two_col, eig) ==
    LET R == eig.eig_vec
        S == Diag(<<NSqrt(eig.eig_val[1]), NSqrt(eig.eig_val[2])>>)
        T == LnTrans(R, S)
        nans == [idx |-> [i \in 1..(2 * NRows(two_col)) |-> i - 1],
                 vals |-> [i \in 1..(2 * NRows(two_col)) |-> NaN]]
    IN IF IsZero(Det(T))
       THEN {[outcome |-> "LinAlgError", xxx |-> None]}
            \cup (IF IsZero(cov_two_col[1][2]) THEN {}
                  ELSE {[outcome |-> "returned", xxx |-> nans]})
       ELSE {[outcome |-> "returned", xxx |-> OneCol(two_col, T)]}

(* the outcomes of one pass of the inner loop for (col1, col2) *)
LnPairOutcomes(data, cols) ==
    LET two_col == Select(data, cols)
        cov_two_col == Cov(two_col).rows
    IN IF ~AllFinite(cov_two_col)
       THEN {[outcome |-> "LinAlgError", xxx |-> None]}
       ELSE UNION {LnWhitened(two_col, cov_two_col, eig) : eig \in Eig(cov_two_col)}

(* for col1 in data.columns: for col2 in data.columns: if col1 == col2: pass *)
LnLoopPairs(labels) ==
    LET n == Len(labels)
        codes == Sorted({c \in 0..(n * n - 1) : c \div n # c % n})
    IN [k \in 1..Len(codes) |-> <<labels[(codes[k] \div n) + 1], labels[(codes[k] % n) + 1]>>]

(* the loops: every xxx goes to yyy.append(xxx, ignore_index=True); an      *)
(* error of inv ends the function                                           *)
RECURSIVE LnLoop(_, _)
LnLoop(data, pairs) ==
    IF pairs = <<>> THEN {[outcome |-> "returned", calls |-> <<>>]}
    ELSE UNION {IF first.outcome # "returned"
                THEN {[outcome |-> first.outcome, calls |-> <<>>]}
                ELSE {[outcome |-> rest.outcome,
                       calls |-> <<External("yyy.append", Head(pairs), first.xxx)>>
                                     \o rest.calls] :
                         rest \in LnLoop(data, Tail(pairs))} :
                   first \in LnPairOutcomes(data, Head(pairs))}

(* the outcomes of a call, each with the calls of yyy.append it made: after *)
(* the loops the function plots yyy and saves data.corr()                   *)
ln_aggregated_dist_returns_pair_data(disk, dates, time_step, window) ==
    LET function_name == "ln_aggregated_dist_returns_pair_data"
        out == LnHeader(function_name)
        path == ReturnsDataPath(dates, time_step)
    IN IF ~Exists(disk, path) THEN {[effect |-> NoData(disk, out), calls |-> <<>>]}
       ELSE {[effect |-> IF loop.outcome # "returned"
                         THEN Effect(disk, loop.outcome, None, out)
                         ELSE LnSaveData(disk, Corr(disk[path]), function_name,
                                         dates, time_step, window, out),
              calls |-> loop.calls] :
                loop \in LnLoop(disk[path], LnLoopPairs(disk[path].cols))}

AppendsRepresentable(calls) ==
    \A k \in DOMAIN calls : SeriesRepresentable(calls[k].result)

LnAggregatedDistReturnsPairData ==
    \E e \in ln_aggregated_dist_returns_pair_data(files, args.dates, args.time_step,
                                                  args.window) :
        /\ Representable(e.effect)
        /\ AppendsRepresentable(e.calls)
        /\ call' = Called("ln_aggregated_dist_returns_pair_data", <<>>)
        /\ files' = e.effect.files
        /\ outcome' = e.effect.outcome
        /\ ret' = e.effect.ret
        /\ stdout' = e.effect.stdout
        /\ external' = e.calls
        /\ UNCHANGED <<args, folders>>

(* returns of MaxRows dates, the first two dates fixed *)
BothPairRows == {<<OfInt(3), One>>, <<Zero, Zero>>, <<OfInt(3), Zero>>}

BothPairFrames ==
    {f \in FramesOf(MaxRows, PairValues) :
        /\ f.rows[1] = <<OfInt(-1), Zero>>
        /\ f.rows[2] = <<Zero, One>>
        /\ \A i \in 3..MaxRows : f.rows[i] \in BothPairRows}

InitBothPair ==
    /\ args \in RunArgs
    /\ args.window = Format(1)
    /\ \/ files = <<>>
       \/ \E data \in BothPairFrames :
            files = Dump(<<>>, ReturnsDataPath(args.dates, args.time_step), data)
    /\ folders = PipelineFolders
    /\ NoCall

NextBothPair ==
    \/ AggregatedDistReturnsPairData
    \/ LnAggregatedDistReturnsPairData

SpecBothPair == InitBothPair /\ [][NextBothPair]_vars

LnPairCall == call.fn = "ln_aggregated_dist_returns_pair_data" /\ HasReturnsFile

(* what aggregated_dist_returns_pair_data gives for a pair with one outcome *)
(* of eig, as outcomes of one pass of the loop of the ln variant            *)
PairOutcomes(two_col, cov_two_col, eig) ==
    {[outcome |-> e.outcome, xxx |-> e.ret] :
        e \in Whitened(files, two_col, cov_two_col, eig)}

----------------------------------------------------------------------------
(* the stages that turn one file of the disk into another *)
StageFunctions ==
    {"returns_data", "normalized_returns_data", "correlation_matrix_data",
     "ln_volatility_data", "ln_normalized_returns_data"}

(* the file a stage saves *)
StageOutputPath(function_name) ==
    IF function_name \in {"ln_volatility_data", "ln_normalized_returns_data"}
    THEN LnDataPath(function_name, args.dates, args.time_step, args.window)
    ELSE CmDataPath(function_name, args.dates, args.time_step)

(* the stages alone, on the disks of main *)
NextStages ==
    \/ ReturnsData
    \/ NormalizedReturnsData
    \/ CorrelationMatrixData
    \/ LnVolatilityData
    \/ LnNormalizedReturnsData

SpecStages == Init /\ [][NextStages]_vars

====
